---- MODULE Spec2Model ----
(***************************************************************************)
(* Tic-tac-toe with a minimax agent (src/tic_tac_toe.py).                  *)
(*                                                                         *)
(* A numpy array is an object of the heap: `heap` is the sequence of the   *)
(* live 3x3 uint8 arrays, a reference is an index into it, and a grid is   *)
(* the tuple of its nine cells in row-major (C) order, so that cell        *)
(* [i, j] is element Idx(i, j).  Board.__board is a reference; copy()      *)
(* allocates, assignment of an array aliases.                              *)
(*                                                                         *)
(* The specifications share the variables:                                 *)
(*   Spec         the game loop of __main__ (human = Player 1, AI = 2);    *)
(*   SpecFair     the game loop with a human who ends up typing a legal    *)
(*                move;                                                    *)
(*   SpecBoard    one call of a Board method on an arbitrary grid;         *)
(*   SpecAgent    one call of Agent.read_board on a grid with at most      *)
(*                MaxEmpty Empty cells;                                    *)
(*   SpecOpening  the same, on the opening boards as well;                 *)
(*   SpecSnapshot a caller that plays, erases, takes get_board() and       *)
(*                writes to the arrays it holds;                           *)
(*   SpecClient   the same caller, with set_board as well.                 *)
(***************************************************************************)
EXTENDS Integers, Sequences, FiniteSets, TLC

VARIABLES
    heap,      \* the numpy arrays alive, by reference
    game,      \* game._Board__board: reference of the live board's grid
    player,    \* the loop counter `player` of __main__
    pc,        \* control point
    call,      \* the operation performed last, with its arguments
    ret,       \* what that operation returned
    before,    \* the heap as it was when that operation started
    held       \* the references a caller of the Board's methods holds

vars == <<heap, game, player, pc, call, ret, before, held>>

\* Inputs typed by the human or passed to play range over -1 .. MaxCoord.
MaxCoord == 3

\* read_board is called on every grid with at most MaxEmpty Empty cells.
MaxEmpty == 4

\* A caller of the Board's methods lets at most MaxArrays arrays be allocated.
MaxArrays == 3

---------------------------------------------------------------------------
\* numpy

None == <<>>

Idx(i, j) == 3 * i + j + 1

Cells == << <<0, 0>>, <<0, 1>>, <<0, 2>>,
            <<1, 0>>, <<1, 1>>, <<1, 2>>,
            <<2, 0>>, <<2, 1>>, <<2, 2>> >>

Grids == [1..9 -> 0..2]

\* np.zeros(shape=(3,3), dtype='uint8')
np_zeros == <<0, 0, 0, 0, 0, 0, 0, 0, 0>>

\* a variant that allocates nothing: the same array under another name
ndarray_alias(h, a) == [heap |-> h, ref |-> a]

\* ndarray.copy(): a new array with the same cells
ndarray_copy(h, a) == [heap |-> Append(h, h[a]), ref |-> Len(h) + 1]

\* np.where(board == 0): the coordinates of the zero cells, in C order
np_where_zero(b) == SelectSeq(Cells, LAMBDA c : b[Idx(c[1], c[2])] = 0)

RECURSIVE np_argmax_from(_, _, _)
np_argmax_from(s, k, best) ==
    IF k > Len(s) THEN best
    ELSE np_argmax_from(s, k + 1, IF s[k] > s[best] THEN k ELSE best)

RECURSIVE np_argmin_from(_, _, _)
np_argmin_from(s, k, best) ==
    IF k > Len(s) THEN best
    ELSE np_argmin_from(s, k + 1, IF s[k] < s[best] THEN k ELSE best)

\* a variant of argmax: the last index of the largest element
RECURSIVE np_arglast_from(_, _, _)
np_arglast_from(s, k, best) ==
    IF k > Len(s) THEN best
    ELSE np_arglast_from(s, k + 1, IF s[k] >= s[best] THEN k ELSE best)

np_argmax_last(s) == np_arglast_from(s, 2, 1)

\* np.argmax / np.argmin: the first index of the largest / smallest element
np_argmax(s) == np_argmax_from(s, 2, 1)

np_argmin(s) == np_argmin_from(s, 2, 1)

\* np.max / np.min
np_max(s) == s[np_argmax_from(s, 2, 1)]

\* a variant of np.min: the largest element
np_min_as_max(s) == s[np_argmax_from(s, 2, 1)]

np_min(s) == s[np_argmin_from(s, 2, 1)]

---------------------------------------------------------------------------
\* class Board

\* Board.__init__ and erase_board bind self.__board to a new array of zeros
Board_init(h) == [heap |-> Append(h, np_zeros), board |-> Len(h) + 1]

erase_board(h, self) == [heap |-> Append(h, np_zeros), board |-> Len(h) + 1]

\* a variant of play without the tests `< 0`: numpy counts a negative index
\* from the end
play_no_lower_bound(h, self, p, row_i, col_j) ==
    LET n_rows == 3
        n_cols == 3
        i == row_i % n_rows
        j == col_j % n_cols
    IN  IF row_i > n_rows - 1 \/ col_j > n_cols - 1
        THEN [ret |-> FALSE, heap |-> h]
        ELSE IF h[self][Idx(i, j)] # 0
        THEN [ret |-> FALSE, heap |-> h]
        ELSE [ret |-> TRUE, heap |-> [h EXCEPT ![self][Idx(i, j)] = p % 256]]

\* a variant of play that writes cell [col_j, row_i]
play_transposed(h, self, p, row_i, col_j) ==
    LET n_rows == 3
        n_cols == 3
    IN  IF row_i < 0 \/ row_i > n_rows - 1 \/ col_j < 0 \/ col_j > n_cols - 1
        THEN [ret |-> FALSE, heap |-> h]
        ELSE IF h[self][Idx(row_i, col_j)] # 0
        THEN [ret |-> FALSE, heap |-> h]
        ELSE [ret |-> TRUE,
              heap |-> [h EXCEPT ![self][Idx(col_j, row_i)] = p % 256]]

\* a variant of play whose upper bounds are n_rows - 2 and n_cols - 2: the
\* last row and the last column are out of bound
play_upper_bound_short(h, self, p, row_i, col_j) ==
    LET n_rows == 3
        n_cols == 3
    IN  IF row_i < 0 \/ row_i > n_rows - 2 \/ col_j < 0 \/ col_j > n_cols - 2
        THEN [ret |-> FALSE, heap |-> h]
        ELSE IF h[self][Idx(row_i, col_j)] # 0
        THEN [ret |-> FALSE, heap |-> h]
        ELSE [ret |-> TRUE,
              heap |-> [h EXCEPT ![self][Idx(row_i, col_j)] = p % 256]]

\* a variant of play without the test of the cell: it writes a cell that
\* holds a mark
play_no_overwritten_case(h, self, p, row_i, col_j) ==
    LET n_rows == 3
        n_cols == 3
    IN  IF row_i < 0 \/ row_i > n_rows - 1 \/ col_j < 0 \/ col_j > n_cols - 1
        THEN [ret |-> FALSE, heap |-> h]
        ELSE [ret |-> TRUE,
              heap |-> [h EXCEPT ![self][Idx(row_i, col_j)] = p % 256]]

\* Board.play(p, row_i, col_j): the value returned and the heap afterwards;
\* a cell is uint8
play(h, self, p, row_i, col_j) ==
    LET n_rows == 3
        n_cols == 3
    IN  IF row_i < 0 \/ row_i > n_rows - 1 \/ col_j < 0 \/ col_j > n_cols - 1
        THEN [ret |-> FALSE, heap |-> h]
        ELSE IF h[self][Idx(row_i, col_j)] # 0
        THEN [ret |-> FALSE, heap |-> h]
        ELSE [ret |-> TRUE,
              heap |-> [h EXCEPT ![self][Idx(row_i, col_j)] = p % 256]]

\* Board.__check: the index sets np.all is taken over.  mask[i,:] and
\* mask[:,i] for i in range(3), mask.diagonal(), mask[:,::-1].diagonal()
Lines ==
    << <<Idx(0, 0), Idx(0, 1), Idx(0, 2)>>, <<Idx(0, 0), Idx(1, 0), Idx(2, 0)>>,
       <<Idx(1, 0), Idx(1, 1), Idx(1, 2)>>, <<Idx(0, 1), Idx(1, 1), Idx(2, 1)>>,
       <<Idx(2, 0), Idx(2, 1), Idx(2, 2)>>, <<Idx(0, 2), Idx(1, 2), Idx(2, 2)>>,
       <<Idx(0, 0), Idx(1, 1), Idx(2, 2)>>,
       <<Idx(0, 2), Idx(1, 1), Idx(2, 0)>> >>

\* a variant of __check that looks at rows and columns only
Board_check_no_diagonal(b, m) ==
    \E l \in 1..6 :
        b[Lines[l][1]] = m /\ b[Lines[l][2]] = m /\ b[Lines[l][3]] = m

\* Board.__check(self.__board == m): some line holds m in its three cells
Board_check(b, m) ==
    \E l \in 1..Len(Lines) :
        b[Lines[l][1]] = m /\ b[Lines[l][2]] = m /\ b[Lines[l][3]] = m

\* Board.check_board on a board whose grid is b
check_board(b) ==
    IF Board_check(b, 1) THEN 1
    ELSE IF Board_check(b, 2) THEN 2
    ELSE IF \E k \in 1..9 : b[k] = 0 THEN 0 ELSE -1

\* get_board returns self.__board.copy(); set_board binds self.__board to the
\* array it is given
\* a variant of get_board that returns self.__board itself
get_board_no_copy(h, self) == ndarray_alias(h, self)

get_board(h, self) == ndarray_copy(h, self)

set_board(h, self, board) == [heap |-> h, board |-> board]

---------------------------------------------------------------------------
\* class Agent

\* a variant of the next: the same player moves again
same_player(p) == p

\* `1 if player==2 else 2`
opponent(p) == IF p = 2 THEN 1 ELSE 2

\* a variant of the next with the signs of win and loss exchanged
terminal_score_swapped(value, self_player) ==
    IF value = -1 THEN 0
    ELSE IF value = self_player THEN -1
    ELSE 1

\* lines 135-142: the score of a finished board (value # 0), for an agent
\* playing self_player
terminal_score(value, self_player) ==
    IF value = -1 THEN 0
    ELSE IF value = self_player THEN 1
    ELSE -1

\* Agent.read_board(board, player) of an agent with self.player = self_player;
\* h is the heap and board a reference.  The array of zeros Board() allocates
\* is unreachable after set_board(board), and the array an iteration of the
\* for loop copies is unreachable once its recursive call has returned.
\*   child(g, k)  the heap and the reference the k-th iteration, entered with
\*                heap g, passes to its recursive call;
\*   loop[k]      the scores and the heap after k iterations;
\*   alone        what the recursive call of every iteration returns when the
\*                iteration is entered with heap h, as a tuple.  When none of
\*                them changes the heap, every iteration of the loop is
\*                entered with h, and loop[n] is what they give.
read_board[h \in Seq(Grids), board \in Nat, p \in {1, 2}, self_player \in {1, 2}] ==
    LET tmp_board == set_board(Board_init(h).heap, Board_init(h).board, board)
        value == check_board(tmp_board.heap[tmp_board.board])
        possible_moves == np_where_zero(h[board])
        n == Len(possible_moves)
        child(g, k) ==
            LET tmp == ndarray_copy(g, board)
                ij == possible_moves[k]
            IN  [heap |-> [tmp.heap EXCEPT
                             ![tmp.ref][Idx(ij[1], ij[2])] = p % 256],
                 ref |-> tmp.ref]
        loop[k \in 0..n] ==
            IF k = 0 THEN [scores |-> <<>>, heap |-> h]
            ELSE
            LET prev == loop[k - 1]
                c == child(prev.heap, k)
                r == read_board[c.heap, c.ref, opponent(p), self_player]
            IN  [scores |-> Append(prev.scores, r.score),
                 heap |-> SubSeq(r.heap, 1, Len(prev.heap))]
        alone == <<>> \o [k \in 1..n |->
                     LET c == child(h, k)
                     IN  read_board[c.heap, c.ref, opponent(p), self_player]]
        chosen(scores, heap_after) ==
            IF self_player = p
            THEN [score |-> np_max(scores),
                  move |-> possible_moves[np_argmax(scores)],
                  heap |-> heap_after]
            ELSE [score |-> np_min(scores),
                  move |-> possible_moves[np_argmin(scores)],
                  heap |-> heap_after]
    IN  IF value # 0
        THEN [score |-> terminal_score(value, self_player),
              move |-> None, heap |-> h]
        ELSE IF \A k \in 1..n : SubSeq(alone[k].heap, 1, Len(h)) = h
        THEN chosen(<<>> \o [k \in 1..n |-> alone[k].score], h)
        ELSE chosen(loop[n].scores, loop[n].heap)

---------------------------------------------------------------------------
\* __main__: the game loop.  CPython frees an array as soon as nothing
\* refers to it; the loop keeps no grid but game.__board.

Collect(h, ref) == <<h[ref]>>

\* ai_player = Agent(): self.player of the default agent
ai_player == 2

NoCall == [op |-> "none"]

NoRet == [valid |-> FALSE, value |-> None]

Init ==
    /\ heap = Board_init(<<>>).heap
    /\ game = Board_init(<<>>).board
    /\ player = 0
    /\ pc = "turn"
    /\ call = NoCall
    /\ ret = NoRet
    /\ before = heap
    /\ held = {}

\* a variant of the loop that tests `value <= 0`: a drawn game goes on
Move_draw_goes_on(h, row, col) ==
    LET r == play(h, game, (player % 2) + 1, row, col)
        value == check_board(r.heap[game])
    IN  /\ heap' = Collect(r.heap, game)
        /\ game' = 1
        /\ ret' = [valid |-> r.ret, value |-> IF r.ret THEN value ELSE None]
        /\ IF r.ret /\ value <= 0
           THEN player' = player + 1 /\ pc' = "turn"
           ELSE IF r.ret
           THEN player' = player /\ pc' = "replay"
           ELSE player' = player /\ pc' = pc

\* a variant of the loop that passes the turn without looking at `valid`
Move_turn_on_reject(h, row, col) ==
    LET r == play(h, game, (player % 2) + 1, row, col)
        value == check_board(r.heap[game])
    IN  /\ heap' = Collect(r.heap, game)
        /\ game' = 1
        /\ ret' = [valid |-> r.ret, value |-> IF r.ret THEN value ELSE None]
        /\ IF value = 0
           THEN player' = player + 1 /\ pc' = "turn"
           ELSE player' = player /\ pc' = "replay"

\* lines 184-209: game.play, and on a valid move check_board and the turn
Move(h, row, col) ==
    LET r == play(h, game, (player % 2) + 1, row, col)
        value == check_board(r.heap[game])
    IN  /\ heap' = Collect(r.heap, game)
        /\ game' = 1
        /\ ret' = [valid |-> r.ret, value |-> IF r.ret THEN value ELSE None]
        /\ IF r.ret /\ value = 0
           THEN player' = player + 1 /\ pc' = "turn"
           ELSE IF r.ret
           THEN player' = player /\ pc' = "replay"
           ELSE player' = player /\ pc' = pc

\* lines 177-179: the human types a row and a column
HumanMove(row, col) ==
    /\ UNCHANGED held
    /\ pc = "turn"
    /\ player % 2 = 0
    /\ before' = heap
    /\ call' = [op |-> "human", row |-> row, col |-> col]
    /\ Move(heap, row, col)

\* lines 178-179, 211-212: int() raises ValueError
BadInput ==
    /\ UNCHANGED held
    /\ pc = "turn"
    /\ player % 2 = 0
    /\ before' = heap
    /\ call' = [op |-> "bad input"]
    /\ ret' = NoRet
    /\ UNCHANGED <<heap, game, player, pc>>

\* lines 180-182: the agent reads a copy of the board.  Unpacking a move of
\* None raises TypeError, which the loop does not catch.
AIMove ==
    /\ UNCHANGED held
    /\ pc = "turn"
    /\ player % 2 = 1
    /\ before' = heap
    /\ \E res \in {read_board[get_board(heap, game).heap,
                              get_board(heap, game).ref, 2, ai_player]} :
           IF res.move = None
           THEN /\ call' = [op |-> "ai", score |-> res.score, move |-> None]
                /\ pc' = "TypeError"
                /\ heap' = Collect(res.heap, game)
                /\ ret' = NoRet
                /\ UNCHANGED <<game, player>>
           ELSE /\ call' = [op |-> "ai", score |-> res.score, move |-> res.move]
                /\ Move(res.heap, res.move[1], res.move[2])

\* a variant of the replay without `player = 0`
ReplayYes_keeps_player ==
    /\ UNCHANGED held
    /\ pc = "replay"
    /\ before' = heap
    /\ call' = [op |-> "replay", answer |-> TRUE]
    /\ LET e == erase_board(heap, game)
       IN  /\ heap' = Collect(e.heap, e.board)
           /\ game' = 1
    /\ player' = player
    /\ pc' = "turn"
    /\ ret' = NoRet

\* lines 201-206: the answer is one of 'y', '1', 'yes'
ReplayYes ==
    /\ UNCHANGED held
    /\ pc = "replay"
    /\ before' = heap
    /\ call' = [op |-> "replay", answer |-> TRUE]
    /\ LET e == erase_board(heap, game)
       IN  /\ heap' = Collect(e.heap, e.board)
           /\ game' = 1
    /\ player' = 0
    /\ pc' = "turn"
    /\ ret' = NoRet

\* lines 207-209: any other answer
ReplayNo ==
    /\ UNCHANGED held
    /\ pc = "replay"
    /\ before' = heap
    /\ call' = [op |-> "replay", answer |-> FALSE]
    /\ pc' = "done"
    /\ ret' = NoRet
    /\ UNCHANGED <<heap, game, player>>

Next ==
    \/ \E row \in -1..MaxCoord, col \in -1..MaxCoord : HumanMove(row, col)
    \/ BadInput
    \/ AIMove
    \/ ReplayYes
    \/ ReplayNo

Spec == Init /\ [][Next]_vars

\* lines 177-184: the human types the coordinates of an Empty cell
HumanLegalMove ==
    \E row \in 0..2, col \in 0..2 : HumanMove(row, col) /\ ret'.valid

\* lines 180-199: what an AI turn does to the turn: the move is accepted, and
\* the game goes on with the other player or is over.  At an AI turn AIMove is
\* the only action of Next, so the steps of AITurnEnds are those of AIMove;
\* whether it is enabled is read from pc and player, without the search.
AITurnEnds ==
    /\ pc = "turn"
    /\ player % 2 = 1
    /\ \/ pc' = "turn" /\ player' = player + 1
       \/ pc' = "replay" /\ player' = player

\* The game loop with a human who, asked for a move, ends up typing a legal
\* one, and an AI whose read_board returns.  A legal move changes the grid.
SpecFair ==
    /\ Init
    /\ [][Next]_vars
    /\ WF_heap(HumanLegalMove)
    /\ WF_<<pc, player>>(AITurnEnds)

---------------------------------------------------------------------------
\* One call of Agent.read_board(board, player) by a caller that holds `board`.
\* The arguments are drawn in the initial state (call), the call is one step.

NumEmpty(g) == Cardinality({k \in 1..9 : g[k] = 0})

SearchBoards == {g \in Grids : NumEmpty(g) <= MaxEmpty}

\* the start of a game, and Player 1 at (0,0) and (0,1)
OpeningBoards == {np_zeros, <<1, 1, 0, 0, 0, 0, 0, 0, 0>>}

InitOn(boards) ==
    /\ \E g \in boards : heap = <<g>>
    /\ game = 1
    /\ player = 0
    /\ pc = "ready"
    /\ call = NoCall
    /\ ret = NoRet
    /\ before = heap
    /\ held = {}

InitAgent == InitOn(SearchBoards)

InitOpening == InitOn(SearchBoards \cup OpeningBoards)

\* ai_player.read_board(board, p) for an agent built as Agent(a)
CallReadBoard(p, a) ==
    /\ UNCHANGED held
    /\ pc = "ready"
    /\ \E res \in {read_board[heap, game, p, a]} :
           /\ heap' = res.heap
           /\ ret' = [score |-> res.score, move |-> res.move]
    /\ call' = [op |-> "read_board", board |-> game, player |-> p,
                self_player |-> a]
    /\ pc' = "returned"
    /\ before' = heap
    /\ UNCHANGED <<game, player>>

NextAgent == \E p \in {1, 2}, a \in {1, 2} : CallReadBoard(p, a)

SpecAgent == InitAgent /\ [][NextAgent]_vars

SpecOpening == InitOpening /\ [][NextAgent]_vars

---------------------------------------------------------------------------
\* One call of a method of a Board whose grid is any grid over {0, 1, 2}.

InitBoard == InitOn(Grids)

\* game.play(p, row, col)
CallPlay(p, row, col) ==
    /\ UNCHANGED held
    /\ pc = "ready"
    /\ \E r \in {play(heap, game, p, row, col)} :
           /\ heap' = r.heap
           /\ ret' = r.ret
    /\ call' = [op |-> "play", board |-> game, player |-> p, row |-> row,
                col |-> col]
    /\ pc' = "returned"
    /\ before' = heap
    /\ UNCHANGED <<game, player>>

\* game.check_board()
CallCheckBoard ==
    /\ UNCHANGED held
    /\ pc = "ready"
    /\ ret' = check_board(heap[game])
    /\ call' = [op |-> "check_board", board |-> game]
    /\ pc' = "returned"
    /\ before' = heap
    /\ UNCHANGED <<heap, game, player>>

\* game.erase_board(): the former grid is no longer referred to
CallEraseBoard ==
    /\ UNCHANGED held
    /\ pc = "ready"
    /\ \E e \in {erase_board(heap, game)} :
           /\ heap' = Collect(e.heap, e.board)
           /\ game' = 1
    /\ ret' = None
    /\ call' = [op |-> "erase_board", board |-> game]
    /\ pc' = "returned"
    /\ before' = heap
    /\ UNCHANGED player

NextBoard ==
    \/ \E p \in {1, 2}, row \in -1..MaxCoord, col \in -1..MaxCoord :
           CallPlay(p, row, col)
    \/ CallCheckBoard
    \/ CallEraseBoard

SpecBoard == InitBoard /\ [][NextBoard]_vars

---------------------------------------------------------------------------
\* A caller of the public methods of one Board.  The caller keeps every array
\* a method returns to it and writes to the arrays it holds; nothing is
\* freed.  The caller plays and writes at the cells ClientCells: the centre.

ClientCells == {<<1, 1>>}

InitClient ==
    /\ heap = Board_init(<<>>).heap
    /\ game = Board_init(<<>>).board
    /\ player = 0
    /\ pc = "client"
    /\ call = NoCall
    /\ ret = NoRet
    /\ before = heap
    /\ held = {}

\* game.play(p, row, col)
ClientPlay(p, row, col) ==
    /\ pc = "client"
    /\ \E r \in {play(heap, game, p, row, col)} :
           /\ heap' = r.heap
           /\ ret' = r.ret
    /\ call' = [op |-> "play", player |-> p, row |-> row, col |-> col]
    /\ before' = heap
    /\ UNCHANGED <<game, player, pc, held>>

\* game.erase_board()
ClientEraseBoard ==
    /\ pc = "client"
    /\ Len(heap) < MaxArrays
    /\ \E e \in {erase_board(heap, game)} :
           /\ heap' = e.heap
           /\ game' = e.board
    /\ ret' = None
    /\ call' = [op |-> "erase_board"]
    /\ before' = heap
    /\ UNCHANGED <<player, pc, held>>

\* g = game.get_board()
ClientGetBoard ==
    /\ pc = "client"
    /\ Len(heap) < MaxArrays
    /\ \E g \in {get_board(heap, game)} :
           /\ heap' = g.heap
           /\ ret' = g.ref
           /\ held' = held \cup {g.ref}
    /\ call' = [op |-> "get_board"]
    /\ before' = heap
    /\ UNCHANGED <<game, player, pc>>

\* game.set_board(g) for an array g the caller holds
ClientSetBoard(g) ==
    /\ pc = "client"
    /\ g \in held
    /\ \E s \in {set_board(heap, game, g)} :
           /\ heap' = s.heap
           /\ game' = s.board
    /\ ret' = None
    /\ call' = [op |-> "set_board", board |-> g]
    /\ before' = heap
    /\ UNCHANGED <<player, pc, held>>

\* g[row, col] = v, by the caller, on an array g it holds
ClientWrite(g, row, col, v) ==
    /\ pc = "client"
    /\ g \in held
    /\ heap' = [heap EXCEPT ![g][Idx(row, col)] = v % 256]
    /\ ret' = None
    /\ call' = [op |-> "write", board |-> g, row |-> row, col |-> col,
                value |-> v]
    /\ before' = heap
    /\ UNCHANGED <<game, player, pc, held>>

NextSnapshot ==
    \/ \E p \in {1, 2}, c \in ClientCells : ClientPlay(p, c[1], c[2])
    \/ ClientEraseBoard
    \/ ClientGetBoard
    \/ \E g \in held, c \in ClientCells, v \in 0..2 :
           ClientWrite(g, c[1], c[2], v)

SpecSnapshot == InitClient /\ [][NextSnapshot]_vars

NextClient ==
    \/ NextSnapshot
    \/ \E g \in held : ClientSetBoard(g)

SpecClient == InitClient /\ [][NextClient]_vars

---------------------------------------------------------------------------
\* Claims about the game loop (Spec)

\* C1: in the game loop, where the human is Player 1 and the AI, Player 2,
\* plays the move read_board returns, check_board of the live board is never
\* 1: a finished game is a draw (-1) or a win of Player 2.
C1_NeverPlayerOneWin ==
    /\ check_board(heap[game]) # 1
    /\ pc = "replay" => check_board(heap[game]) \in {-1, 2}

\* C1 witness: a game played to a full board has ended in a draw
C1_DrawnGame ==
    /\ pc = "replay"
    /\ check_board(heap[game]) = -1
    /\ \A k \in 1..9 : heap[game][k] # 0

---------------------------------------------------------------------------
\* Claims about Agent.read_board (SpecAgent, SpecOpening).  In a state with
\* pc = "returned", before[call.board] is the grid the call was given.

Given == before[call.board]

Returned == pc = "returned" /\ call.op = "read_board"

SetMax(S) == CHOOSE x \in S : \A y \in S : y <= x

SetMin(S) == CHOOSE x \in S : \A y \in S : y >= x

\* The minimax value of grid g with p to move, for an agent playing a.
RECURSIVE MinimaxValue(_, _, _)
MinimaxValue(g, p, a) ==
    LET v == check_board(g)
        kids == {MinimaxValue([g EXCEPT ![k] = p], IF p = 1 THEN 2 ELSE 1, a) :
                     k \in {k \in 1..9 : g[k] = 0}}
    IN  IF v = -1 THEN 0
        ELSE IF v # 0 THEN (IF v = a THEN 1 ELSE -1)
        ELSE IF p = a THEN SetMax(kids) ELSE SetMin(kids)

\* The value of the child of g in which p has marked cell (i, j).
ChildValue(g, i, j, p, a) ==
    MinimaxValue([g EXCEPT ![Idx(i, j)] = p], IF p = 1 THEN 2 ELSE 1, a)

\* (i, j) comes before (m, n) in row-major order
RowMajorBefore(i, j, m, n) == i < m \/ (i = m /\ j < n)

\* C2: on the empty board read_board returns score 0, whichever player the
\* agent is and whichever player is to move.
C2_EmptyBoardScoreZero ==
    Returned /\ Given = np_zeros => ret.score = 0

\* C2 witness: the search of the empty board has returned, with Player 1 to
\* move and the agent playing Player 2
C2_EmptyBoardSearched ==
    /\ Returned
    /\ Given = np_zeros
    /\ call.player = 1
    /\ call.self_player = 2
    /\ ret.score = 0

\* C3: the score read_board returns is the minimax value of the position:
\* the terminal score on a finished board, else the maximum of the children's
\* values when the mover is the agent and the minimum otherwise; it is one
\* of -1, 0, 1.
C3_ScoreIsMinimaxValue ==
    Returned =>
        /\ ret.score = MinimaxValue(Given, call.player, call.self_player)
        /\ ret.score \in {-1, 0, 1}

\* C3 witness: a search of an in-progress board with three Empty cells, the
\* opponent to move, that returned the minimum -1 although some child has a
\* larger value
C3_MinimizedOverChildren ==
    /\ Returned
    /\ check_board(Given) = 0
    /\ NumEmpty(Given) = 3
    /\ call.player # call.self_player
    /\ ret.score = -1
    /\ \E i \in 0..2, j \in 0..2 :
           /\ Given[Idx(i, j)] = 0
           /\ ChildValue(Given, i, j, call.player, call.self_player) = 1

\* C4: on an in-progress board the move returned is the first Empty cell, in
\* row-major order, whose child has the returned score.
C4_FirstBestMove ==
    Returned /\ check_board(Given) = 0 =>
        /\ ret.move \in (0..2) \X (0..2)
        /\ Given[Idx(ret.move[1], ret.move[2])] = 0
        /\ ChildValue(Given, ret.move[1], ret.move[2], call.player,
                      call.self_player) = ret.score
        /\ \A i \in 0..2, j \in 0..2 :
               /\ RowMajorBefore(i, j, ret.move[1], ret.move[2])
               /\ Given[Idx(i, j)] = 0
               => ChildValue(Given, i, j, call.player, call.self_player)
                      # ret.score

\* C4 witness: a maximizing search returned a move although a later Empty
\* cell has the same score
C4_TieBrokenByOrder ==
    /\ Returned
    /\ check_board(Given) = 0
    /\ call.player = call.self_player
    /\ \E i \in 0..2, j \in 0..2 :
           /\ RowMajorBefore(ret.move[1], ret.move[2], i, j)
           /\ Given[Idx(i, j)] = 0
           /\ ChildValue(Given, i, j, call.player, call.self_player) = ret.score

\* C5: read_board returns no move exactly when check_board of the given board
\* is non-zero, and then the score is 0 for a draw, +1 when the winner is
\* self.player and -1 when it is the other player; on an in-progress board it
\* returns a cell that is Empty in the given board.
C5_NoMoveIffTerminal ==
    Returned =>
        /\ (ret.move = None) <=> (check_board(Given) # 0)
        /\ check_board(Given) = -1 => ret.score = 0
        /\ check_board(Given) \in {1, 2} =>
               ret.score = IF check_board(Given) = call.self_player
                           THEN 1 ELSE -1
        /\ check_board(Given) = 0 =>
               /\ ret.move \in (0..2) \X (0..2)
               /\ Given[Idx(ret.move[1], ret.move[2])] = 0

\* C5 witness: a search of a board the other player has won returned -1 and
\* no move
C5_LostBoardSearched ==
    /\ Returned
    /\ check_board(Given) = 1
    /\ call.self_player = 2
    /\ ret.move = None
    /\ ret.score = -1

\* C6: with Player 1 at (0,0) and (0,1), every other cell Empty, Player 1 to
\* move and the agent playing Player 1, read_board returns move (0,2) and
\* score +1.
C6_CompletesTheRow ==
    /\ Returned
    /\ Given = <<1, 1, 0, 0, 0, 0, 0, 0, 0>>
    /\ call.player = 1
    /\ call.self_player = 1
    => ret.move = <<0, 2>> /\ ret.score = 1

\* C6 witness: that search has returned, and its move wins the game
C6_RowScenarioSearched ==
    /\ Returned
    /\ Given = <<1, 1, 0, 0, 0, 0, 0, 0, 0>>
    /\ call.player = 1
    /\ call.self_player = 1
    /\ ret.move # None
    /\ check_board([Given EXCEPT ![Idx(ret.move[1], ret.move[2])] = 1]) = 1

\* C10: read_board does not change the grid it is given: when the call has
\* returned, recursive calls included, the caller's grid holds the nine
\* values it held before.
C10_GivenGridUnchanged ==
    Returned => heap[call.board] = before[call.board]

\* C10 witness: the search of a board with MaxEmpty empty cells and no full
\* line, which copies the grid once for every move at every depth, has
\* returned a move and the grid holds what it held
C10_ExploredAndUntouched ==
    /\ Returned
    /\ NumEmpty(before[call.board]) = MaxEmpty
    /\ ret.move # None
    /\ heap[call.board] = before[call.board]

---------------------------------------------------------------------------
\* Claims about the methods of Board (SpecBoard)

\* player m holds a full row, a full column or a full diagonal of grid g
HoldsLine(g, m) ==
    \/ \E i \in 0..2 : \A j \in 0..2 : g[Idx(i, j)] = m
    \/ \E j \in 0..2 : \A i \in 0..2 : g[Idx(i, j)] = m
    \/ \A i \in 0..2 : g[Idx(i, i)] = m
    \/ \A i \in 0..2 : g[Idx(i, 2 - i)] = m

HasEmpty(g) == \E i \in 0..2, j \in 0..2 : g[Idx(i, j)] = 0

InRange(row, col) == row \in 0..2 /\ col \in 0..2

\* C7: check_board is decided by the grid alone: 1 when Player 1 holds a line
\* (also when Player 2 holds one too), else 2 when Player 2 holds a line,
\* else 0 when a cell is Empty, else -1; so -1 implies no Empty cell and no
\* line of either player.
C7_CheckBoardClassifies ==
    pc = "returned" /\ call.op = "check_board" =>
        /\ ret = IF HoldsLine(Given, 1) THEN 1
                 ELSE IF HoldsLine(Given, 2) THEN 2
                 ELSE IF HasEmpty(Given) THEN 0
                 ELSE -1
        /\ ret = -1 =>
               ~HasEmpty(Given) /\ ~HoldsLine(Given, 1) /\ ~HoldsLine(Given, 2)

\* C7 witness: check_board returned 1 on a grid in which Player 2 holds
\* row 0 and Player 1 a line below it
C7_BothHoldLines ==
    /\ pc = "returned"
    /\ call.op = "check_board"
    /\ HoldsLine(Given, 1)
    /\ \A j \in 0..2 : Given[Idx(0, j)] = 2
    /\ ret = 1

\* C8: play with a row or column outside 0..2 (negative values included), or
\* on a cell that is not Empty, returns False and leaves the nine cells as
\* they were.
C8_RejectedPlayChangesNothing ==
    /\ pc = "returned"
    /\ call.op = "play"
    /\ IF InRange(call.row, call.col)
       THEN Given[Idx(call.row, call.col)] # 0
       ELSE TRUE
    => ret = FALSE /\ heap[game] = Given

\* C8 witness: a play with row -1 on a grid whose last row has an Empty cell
\* in that column was rejected
C8_NegativeRowRejected ==
    /\ pc = "returned"
    /\ call.op = "play"
    /\ call.row = -1
    /\ call.col \in 0..2
    /\ Given[Idx(2, call.col)] = 0
    /\ ret = FALSE

\* C9: play with player 1 or 2, row and column in 0..2 and an Empty target
\* returns True; afterwards the target holds the player and the other eight
\* cells are unchanged.
C9_AcceptedPlayMarksOneCell ==
    /\ pc = "returned"
    /\ call.op = "play"
    /\ call.player \in {1, 2}
    /\ InRange(call.row, call.col)
    /\ Given[Idx(call.row, call.col)] = 0
    => /\ ret = TRUE
       /\ heap[game][Idx(call.row, call.col)] = call.player
       /\ \A i \in 0..2, j \in 0..2 :
              <<i, j>> # <<call.row, call.col>> =>
                  heap[game][Idx(i, j)] = Given[Idx(i, j)]

\* C9 witness: an accepted play off the diagonal, on a grid holding marks of
\* both players
C9_OffDiagonalPlayAccepted ==
    /\ pc = "returned"
    /\ call.op = "play"
    /\ ret = TRUE
    /\ call.row # call.col
    /\ heap[game][Idx(call.row, call.col)] = call.player
    /\ \E k \in 1..9 : Given[k] = 1
    /\ \E k \in 1..9 : Given[k] = 2

---------------------------------------------------------------------------
\* Claims about the callers of a Board (SpecSnapshot, SpecClient).  A step
\* whose call' has op "write" is a write by the caller to the array
\* call'.board; heap[game] is the grid check_board and get_board read.

\* C11: the grid get_board returns is independent of the Board.  A write by
\* the caller to a grid get_board returned leaves the Board's grid, hence
\* what check_board and get_board report, as it was; a play or an
\* erase_board leaves every grid get_board returned before as it was.
C11_ReturnedGridIndependent ==
    [][/\ call'.op = "write" =>
              /\ heap'[game'] = heap[game]
              /\ check_board(heap'[game']) = check_board(heap[game])
       /\ call'.op \in {"play", "erase_board"} =>
              \A g \in held : heap'[g] = heap[g]]_vars

\* C11 witness: the Board was played on and the caller has just written to a
\* grid get_board returned; that grid differs from the Board's, which holds
\* the mark played
C11_CopyWrittenBoardKept ==
    /\ pc = "client"
    /\ call.op = "write"
    /\ call.board \in held
    /\ heap[call.board] # before[call.board]
    /\ heap[game] = before[game]
    /\ heap[game] # np_zeros
    /\ heap[call.board] # heap[game]

\* C12: no public operation gives a caller mutable access to the Board's
\* grid.  After any sequence of play, erase_board, get_board and set_board(g),
\* a write by the caller to a grid it holds, the grid it passed to set_board
\* included, leaves the Board's cells as they were, and a play leaves every
\* grid the caller holds as it was.
C12_NoMutableAccess ==
    [][/\ call'.op = "write" => heap'[game'] = heap[game]
       /\ call'.op = "play" => \A g \in held : heap'[g] = heap[g]]_vars

---------------------------------------------------------------------------
\* More claims about the game loop (Spec).  The loop plays player % 2 + 1:
\* Player 1 is the human, Player 2 the AI.

\* the number of cells of grid g that hold m
Count(g, m) == Cardinality({k \in 1..9 : g[k] = m})

\* C13: in every reachable state of the game loop the board holds as many
\* Player 1 marks as Player 2 marks, or exactly one more; while a game is in
\* progress the player to move is Player 1 exactly when the counts are equal.
C13_MarksAlternate ==
    /\ Count(heap[game], 1) - Count(heap[game], 2) \in {0, 1}
    /\ pc = "turn" =>
           ((player % 2) + 1 = 1 <=> Count(heap[game], 1) = Count(heap[game], 2))

\* C13 witness: Player 2 is to move on a board with two marks of Player 1
\* and one of Player 2
C13_AITurnOneBehind ==
    /\ pc = "turn"
    /\ (player % 2) + 1 = 2
    /\ Count(heap[game], 1) = 2
    /\ Count(heap[game], 2) = 1

\* C14: within one game a cell that holds a mark holds the same mark in the
\* next state, whatever play call was accepted or rejected; only the
\* erase_board of an affirmative replay empties it.
C14_MarksStay ==
    [][\/ call'.op = "replay" /\ call'.answer
       \/ \A k \in 1..9 :
              heap[game][k] # 0 => heap'[game'][k] = heap[game][k]]_vars

\* C14 witness: the human named a cell that holds a mark; play returned False
\* and the cell holds the mark it held
C14_OccupiedCellRefused ==
    /\ call.op = "human"
    /\ call.row \in 0..2
    /\ call.col \in 0..2
    /\ before[game][Idx(call.row, call.col)] = 2
    /\ ~ret.valid
    /\ heap[game][Idx(call.row, call.col)] = 2

\* C15: the turn passes to the other player only after an accepted move that
\* leaves the game in progress.  When play returns False or the input is not
\* a number, the board and the player to move are unchanged and the same
\* player is asked again.
C15_TurnPassesOnAcceptedMove ==
    [][call'.op \in {"human", "ai", "bad input"} =>
           /\ player' # player =>
                  /\ ret'.valid
                  /\ ret'.value = 0
                  /\ player' = player + 1
           /\ ~ret'.valid =>
                  /\ heap'[game'] = heap[game]
                  /\ player' = player
                  /\ pc' = "turn"]_vars

\* C15 witness: in a game under way the human typed row -1; play returned
\* False, the board is as it was and the human is to move again
C15_OutOfRangeAskedAgain ==
    /\ call.op = "human"
    /\ call.row = -1
    /\ ~ret.valid
    /\ heap[game] = before[game]
    /\ heap[game] # np_zeros
    /\ pc = "turn"
    /\ player % 2 = 0

\* C16: every AI turn of the game loop produces an accepted move: read_board
\* returns a move, never None, on every board the AI is consulted on, and
\* game.play with that move returns True.
C16_AIMoveAccepted ==
    /\ pc # "TypeError"
    /\ call.op = "ai" => call.move # None /\ ret.valid

\* C16 witness: the third move of the AI in a game was accepted and the game
\* goes on
C16_ThirdAIMoveAccepted ==
    /\ call.op = "ai"
    /\ call.move # None
    /\ ret.valid
    /\ ret.value = 0
    /\ Count(heap[game], 2) = 3

\* some Empty cell of grid g completes a line of player m
CanComplete(g, m) ==
    \E k \in 1..9 : g[k] = 0 /\ Board_check([g EXCEPT ![k] = m], m)

\* C17: whenever it is the AI's turn and some Empty cell would complete
\* three-in-a-row for Player 2, the move the AI plays completes a
\* three-in-a-row: check_board returns 2 right after that move.
C17_AITakesImmediateWin ==
    (call.op = "ai" /\ CanComplete(before[game], 2)) => ret.value = 2

\* C17 as amended: whenever it is the AI's turn and some Empty cell would
\* complete three-in-a-row for Player 2, read_board returns score +1 and the
\* move the AI plays either completes a three-in-a-row or leaves the game in
\* progress with, whatever cell the human marks next, no line for Player 1
\* and an Empty cell that completes three-in-a-row for Player 2.
C17_AIKeepsTheWin ==
    (call.op = "ai" /\ CanComplete(before[game], 2)) =>
        /\ call.score = 1
        /\ ret.valid
        /\ \/ ret.value = 2
           \/ /\ ret.value = 0
              /\ \A k \in 1..9 :
                     heap[game][k] = 0 =>
                         /\ ~Board_check([heap[game] EXCEPT ![k] = 1], 1)
                         /\ CanComplete([heap[game] EXCEPT ![k] = 1], 2)

\* C17 witness: the AI had a cell that completes a line and played another
\* one; the game is in progress
C17_WinPostponed ==
    /\ call.op = "ai"
    /\ CanComplete(before[game], 2)
    /\ call.score = 1
    /\ ret.valid
    /\ ret.value = 0

\* C18: the game loop never attempts a move on a finished board.  Whenever
\* the loop calls game.play or ai_player.read_board, check_board of the live
\* board is 0; once check_board is not 0 the next operation is the
\* erase_board of a replay, or the program ends.
C18_NoMoveOnFinishedBoard ==
    [][/\ call'.op \in {"human", "ai"} => check_board(heap[game]) = 0
       /\ check_board(heap[game]) # 0 =>
              /\ call'.op = "replay"
              /\ IF call'.answer
                 THEN heap'[game'] = np_zeros
                 ELSE pc' = "done" /\ heap'[game'] = heap[game]]_vars

\* C18 witness: the program has ended on a board Player 2 has won
C18_EndedOnWonBoard ==
    /\ pc = "done"
    /\ call.op = "replay"
    /\ ~call.answer
    /\ check_board(heap[game]) = 2

\* C19: after an affirmative answer to the replay prompt the next game
\* starts from the initial state, whoever made the last move of the game
\* before: the nine cells are Empty and the next move is Player 1's.
C19_ReplayStartsAfresh ==
    (call.op = "replay" /\ call.answer) =>
        /\ heap[game] = np_zeros
        /\ pc = "turn"
        /\ (player % 2) + 1 = 1

\* C19 witness: the game before ended with a move of Player 2, and the new
\* game is about to start
C19_ReplayAfterAIWin ==
    /\ call.op = "replay"
    /\ call.answer
    /\ check_board(before[game]) = 2
    /\ Count(before[game], 1) = Count(before[game], 2)
    /\ heap[game] = np_zeros

\* C20: every game ends.  Each accepted move leaves one Empty cell fewer; a
\* game has at most 9 accepted moves, at most 5 of Player 1 and 4 of Player
\* 2; and, the human typing a legal move in the end at each of its turns,
\* every game reaches a state where check_board is not 0.
C20_EveryGameEnds ==
    /\ [][(call'.op \in {"human", "ai"} /\ ret'.valid) =>
               NumEmpty(heap'[game']) = NumEmpty(heap[game]) - 1]_vars
    /\ [](/\ Count(heap[game], 1) <= 5
          /\ Count(heap[game], 2) <= 4
          /\ Count(heap[game], 1) + Count(heap[game], 2) + NumEmpty(heap[game]) = 9)
    /\ (pc = "turn" ~> check_board(heap[game]) # 0)

\* C20 witness: the ninth accepted move of a game, the fifth of Player 1, has
\* ended it
C20_NinthMoveEndsGame ==
    /\ call.op = "human"
    /\ ret.valid
    /\ ret.value # 0
    /\ NumEmpty(heap[game]) = 0
    /\ Count(heap[game], 1) = 5
    /\ Count(heap[game], 2) = 4

====
